---------------------------- MODULE Spec2Model ----------------------------
(***************************************************************************)
(* Model of main.py (VPN node stability scoring): the command-line run,    *)
(* read_csv_files, parse_value, calculate_scores, rank_nodes and           *)
(* visualize_performance.                                                  *)
(*                                                                         *)
(* Text (file names, CSV fields) is a sequence of one-character strings.   *)
(* Floating-point numbers are fixed-point integers in units of 1/Scale;    *)
(* divisions and the square root round down.  float('inf') is a tagged     *)
(* value.  The field alphabet holds no "nan"/"inf" literal and no          *)
(* whitespace, exponent or fraction, so every parsed number is a finite    *)
(* integer.                                                                *)
(***************************************************************************)
EXTENDS Integers, Sequences, FiniteSets, TLC

VARIABLES
    pc,            \* position of the run
    argc,          \* len(sys.argv)
    is_dir,        \* os.path.isdir(sys.argv[1])
    listing,       \* os.listdir(dir_path): the directory's entries
    todo,          \* the part of sorted(os.listdir(dir_path)) still to visit
    file_names,    \* read_csv_files: file_names
    data,          \* read_csv_files: data (the Corpus), in insertion order
    nrows,         \* data rows drawn from the csv readers so far
    one_number,    \* history: servers read in a 3-field row with exactly one number
    both_or_none,  \* history: per server, the 3-field rows read with two numbers or none
    rankings,      \* main: rankings
    chart,         \* visualize_performance: ping_data, speed_data, error_data
    events,        \* what the run has printed and written, in order
    exit_code,     \* the process's exit status ("running" until it ends)
    exc,           \* the uncaught exception that ended the run, if any
    measurements,  \* calculate_scores: its argument (unit specification)
    scores,        \* calculate_scores: its result (unit specification)
    row,           \* read_csv_files: row (unit specification)
    before         \* the Corpus before row was processed (unit specification)

vars == <<pc, argc, is_dir, listing, todo, file_names, data, nrows,
          one_number, both_or_none, rankings, chart, events, exit_code,
          exc, measurements, scores, row, before>>

---------------------------------------------------------------------------
(* Bounds of the model *)

\* fixed-point resolution: a float x is the integer x * Scale, rounded down
Scale == 1000
\* data rows read over a whole run
MaxRows == 3
\* length of the sample sequences given to calculate_scores on its own
MaxLen == 3

---------------------------------------------------------------------------
(* Text *)

\* ord() of the characters that file names are made of
Ord(c) ==
    CASE c = "." -> 46
      [] c = "a" -> 97
      [] c = "b" -> 98
      [] c = "c" -> 99
      [] c = "s" -> 115
      [] c = "t" -> 116
      [] c = "v" -> 118
      [] c = "x" -> 120

\* str.__lt__: lexicographic order by code point
RECURSIVE StrLess(_, _)
StrLess(a, b) ==
    IF b = <<>> THEN FALSE
    ELSE IF a = <<>> THEN TRUE
    ELSE IF Ord(Head(a)) # Ord(Head(b)) THEN Ord(Head(a)) < Ord(Head(b))
    ELSE StrLess(Tail(a), Tail(b))

\* str.endswith
EndsWith(s, suffix) ==
    /\ Len(s) >= Len(suffix)
    /\ SubSeq(s, Len(s) - Len(suffix) + 1, Len(s)) = suffix

\* str.upper, character by character
UpperChar(c) ==
    CASE c = "a" -> "A"
      [] c = "b" -> "B"
      [] c = "c" -> "C"
      [] c = "e" -> "E"
      [] c = "o" -> "O"
      [] c = "r" -> "R"
      [] OTHER -> c

Upper(s) == [i \in 1..Len(s) |-> UpperChar(s[i])]

Digits == {"0", "1", "2", "3", "4", "5", "6", "7", "8", "9"}

DigitValue(c) ==
    CASE c = "0" -> 0 [] c = "1" -> 1 [] c = "2" -> 2 [] c = "3" -> 3
      [] c = "4" -> 4 [] c = "5" -> 5 [] c = "6" -> 6 [] c = "7" -> 7
      [] c = "8" -> 8 [] c = "9" -> 9

\* float(value) succeeds: an optional sign and one or more digits
IsFloatLiteral(s) ==
    LET body == IF s # <<>> /\ Head(s) \in {"-", "+"} THEN Tail(s) ELSE s
    IN  /\ body # <<>>
        /\ \A i \in 1..Len(body) : body[i] \in Digits

RECURSIVE DecimalValue(_)
DecimalValue(ds) ==
    IF ds = <<>> THEN 0
    ELSE 10 * DecimalValue(SubSeq(ds, 1, Len(ds) - 1)) + DigitValue(ds[Len(ds)])

\* float(value), for a value IsFloatLiteral accepts
FloatOf(s) ==
    IF Head(s) = "-" THEN -(DecimalValue(Tail(s)) * Scale)
    ELSE IF Head(s) = "+" THEN DecimalValue(Tail(s)) * Scale
    ELSE DecimalValue(s) * Scale

None == [none |-> TRUE, val |-> 0]
Float(x) == [none |-> FALSE, val |-> x]

ERROR == <<"E", "R", "R", "O", "R">>

\* parse_value whose ValueError handler returns 0.0
parse_value_zero(value) ==
    IF value = <<>> \/ Upper(value) = ERROR THEN None
    ELSE IF IsFloatLiteral(value) THEN Float(FloatOf(value))
    ELSE Float(0)

parse_value(value) ==
    IF value = <<>> \/ Upper(value) = ERROR THEN None
    ELSE IF IsFloatLiteral(value) THEN Float(FloatOf(value))
    ELSE None

---------------------------------------------------------------------------
(* Numbers *)

Min(a, b) == IF a <= b THEN a ELSE b
Max(a, b) == IF a >= b THEN a ELSE b

RECURSIVE SumSeq(_)
SumSeq(xs) == IF xs = <<>> THEN 0 ELSE Head(xs) + SumSeq(Tail(xs))

RECURSIVE SqrtBetween(_, _, _)
SqrtBetween(x, lo, hi) ==
    IF lo >= hi THEN lo
    ELSE LET mid == (lo + hi + 1) \div 2
         IN  IF mid * mid <= x THEN SqrtBetween(x, mid, hi)
             ELSE SqrtBetween(x, lo, mid - 1)

\* math.sqrt, rounded down
Sqrt(x) == SqrtBetween(x, 0, 46340)

\* statistics.mean
mean(xs) == SumSeq(xs) \div Len(xs)

\* statistics.stdev: the square root of the sum of squared deviations from the
\* mean over n - 1
stdev(xs) ==
    LET m == mean(xs)
        ss == SumSeq([i \in 1..Len(xs) |-> (xs[i] - m) * (xs[i] - m)])
    IN  Sqrt(ss \div (Len(xs) - 1))

\* float('inf') and the finite floats that share a variable with it
Inf == [inf |-> TRUE, val |-> 0]
Fin(x) == [inf |-> FALSE, val |-> x]

---------------------------------------------------------------------------
(* Samples and calculate_scores *)

ERROR_PAIR == [err |-> TRUE, ping |-> 0, speed |-> 0]
Pair(p, s) == [err |-> FALSE, ping |-> p, speed |-> s]

\* [m for m in measurements if m != ('ERROR', 'ERROR')]
RECURSIVE ValidMeasurements(_)
ValidMeasurements(ms) ==
    IF ms = <<>> THEN <<>>
    ELSE IF Head(ms) # ERROR_PAIR THEN <<Head(ms)>> \o ValidMeasurements(Tail(ms))
    ELSE ValidMeasurements(Tail(ms))

Pings(valid) == [i \in 1..Len(valid) |-> valid[i].ping]
Speeds(valid) == [i \in 1..Len(valid) |-> valid[i].speed]

Returned(st, sp, pg) ==
    [exc |-> "None", stability |-> st, avg_speed |-> sp, avg_ping |-> pg]
Raised(e) ==
    [exc |-> e, stability |-> 0, avg_speed |-> 0, avg_ping |-> Fin(0)]

\* calculate_scores returning early on no valid pair only: statistics.stdev
\* raises StatisticsError for a single point
calculate_scores_one(ms) ==
    LET valid == ValidMeasurements(ms)
        pings == Pings(valid)
        speeds == Speeds(valid)
    IN  IF Len(valid) < 1 THEN Returned(0, 0, Inf)
        ELSE IF Len(valid) < 2 THEN Raised("StatisticsError")
        ELSE IF mean(speeds) = 0 THEN Raised("ZeroDivisionError")
        ELSE LET ping_stability == (Scale * Scale) \div (stdev(pings) + Scale)
                 cv == (stdev(speeds) * Scale) \div mean(speeds)
             IN  IF cv + Scale = 0 THEN Raised("ZeroDivisionError")
                 ELSE LET speed_stability == (Scale * Scale) \div (cv + Scale)
                          stability_score == (ping_stability + speed_stability) \div 2
                      IN  Returned(stability_score, mean(speeds), Fin(mean(pings)))

calculate_scores(ms) ==
    LET valid == ValidMeasurements(ms)
        pings == Pings(valid)
        speeds == Speeds(valid)
    IN  IF Len(valid) < 2 THEN Returned(0, 0, Inf)
        ELSE IF mean(speeds) = 0 THEN Raised("ZeroDivisionError")
        ELSE LET ping_stability == (Scale * Scale) \div (stdev(pings) + Scale)
                 cv == (stdev(speeds) * Scale) \div mean(speeds)
             IN  IF cv + Scale = 0 THEN Raised("ZeroDivisionError")
                 ELSE LET speed_stability == (Scale * Scale) \div (cv + Scale)
                          stability_score == (ping_stability + speed_stability) \div 2
                      IN  Returned(stability_score, mean(speeds), Fin(mean(pings)))

---------------------------------------------------------------------------
(* The Corpus: defaultdict(lambda: defaultdict(list)), in insertion order *)

HasServer(d, name) == \E i \in 1..Len(d) : d[i].server = name
ServerIndex(d, name) == CHOOSE i \in 1..Len(d) : d[i].server = name
HasFile(fs, filename) == \E j \in 1..Len(fs) : fs[j].file = filename
FileIndex(fs, filename) == CHOOSE j \in 1..Len(fs) : fs[j].file = filename

Keys(d) == {d[i].server : i \in 1..Len(d)}
FileKeys(fs) == {fs[j].file : j \in 1..Len(fs)}

\* data[server_name]: a missing key is inserted with an empty inner mapping
GetServer(d, name) ==
    IF HasServer(d, name) THEN d
    ELSE Append(d, [server |-> name, files |-> <<>>])

\* file_measurements[filename]: a missing key is inserted with an empty list
GetFile(fs, filename) ==
    IF HasFile(fs, filename) THEN fs
    ELSE Append(fs, [file |-> filename, ms |-> <<>>])

\* data[server_name][filename].append(m)
AppendMeasurement(d, name, filename, m) ==
    LET d1 == GetServer(d, name)
        i == ServerIndex(d1, name)
        fs1 == GetFile(d1[i].files, filename)
        j == FileIndex(fs1, filename)
    IN  [d1 EXCEPT ![i].files = [fs1 EXCEPT ![j].ms = Append(@, m)]]

\* the loop body of read_csv_files with the elif turned into an else
ProcessRowElse(d, filename, r) ==
    IF Len(r) = 3
    THEN LET ping_value == parse_value(r[2])
             speed_value == parse_value(r[3])
         IN  IF ~ping_value.none /\ ~speed_value.none
             THEN AppendMeasurement(d, r[1], filename,
                                    Pair(ping_value.val, speed_value.val))
             ELSE AppendMeasurement(d, r[1], filename, ERROR_PAIR)
    ELSE d

\* the loop body of read_csv_files, lines 27-34
ProcessRow(d, filename, r) ==
    IF Len(r) = 3
    THEN LET ping_value == parse_value(r[2])
             speed_value == parse_value(r[3])
         IN  IF ~ping_value.none /\ ~speed_value.none
             THEN AppendMeasurement(d, r[1], filename,
                                    Pair(ping_value.val, speed_value.val))
             ELSE IF ping_value.none /\ speed_value.none
             THEN AppendMeasurement(d, r[1], filename, ERROR_PAIR)
             ELSE d
    ELSE d

\* sorted(...) of a set of names: the sequence of its elements in StrLess order
RECURSIVE SortedNames(_)
SortedNames(S) ==
    IF S = {} THEN <<>>
    ELSE LET least == CHOOSE x \in S : \A y \in S \ {x} : StrLess(x, y)
         IN  <<least>> \o SortedNames(S \ {least})

CSV == <<".", "c", "s", "v">>

---------------------------------------------------------------------------
(* rank_nodes *)

\* [m for file_ms in file_measurements.values() for m in file_ms]
RECURSIVE AllMeasurements(_)
AllMeasurements(fs) ==
    IF fs = <<>> THEN <<>> ELSE Head(fs).ms \o AllMeasurements(Tail(fs))

normalized_speed(avg_speed) == Min(avg_speed \div 100, Scale)

\* max(1 - avg_ping / 1000, 0); 1 - inf / 1000 is -inf
normalized_ping(avg_ping) ==
    IF avg_ping.inf THEN 0 ELSE Max(Scale - avg_ping.val \div 1000, 0)

weighted_score(sc) ==
    (4 * sc.stability + 3 * normalized_speed(sc.avg_speed)
       + 1 * normalized_ping(sc.avg_ping)) \div 8

\* one pass of the loop of rank_nodes, lines 56-68
Ranking(entry) ==
    LET sc == calculate_scores(AllMeasurements(entry.files))
    IN  [server |-> entry.server, weighted_score |-> weighted_score(sc),
         stability_score |-> sc.stability, avg_speed |-> sc.avg_speed,
         avg_ping |-> sc.avg_ping]

\* the place of x when equal keys are taken in reverse, as in sorted(...)[::-1]
RECURSIVE InsertDescendingReversed(_, _)
InsertDescendingReversed(sorted, x) ==
    IF sorted = <<>> THEN <<x>>
    ELSE IF Head(sorted).weighted_score > x.weighted_score
         THEN <<Head(sorted)>> \o InsertDescendingReversed(Tail(sorted), x)
         ELSE <<x>> \o sorted

\* the place of x in a list sorted by descending key: behind every element whose
\* key is not smaller (list.sort is stable, with reverse=True too)
RECURSIVE InsertDescending(_, _)
InsertDescending(sorted, x) ==
    IF sorted = <<>> THEN <<x>>
    ELSE IF Head(sorted).weighted_score >= x.weighted_score
         THEN <<Head(sorted)>> \o InsertDescending(Tail(sorted), x)
         ELSE <<x>> \o sorted

RECURSIVE SortedDescending(_)
SortedDescending(rs) ==
    IF rs = <<>> THEN <<>>
    ELSE InsertDescending(SortedDescending(SubSeq(rs, 1, Len(rs) - 1)), rs[Len(rs)])

\* whether calculate_scores raises for some server
RankRaises(d) ==
    \E i \in 1..Len(d) : calculate_scores(AllMeasurements(d[i].files)).exc # "None"

rank_nodes(d) == SortedDescending([i \in 1..Len(d) |-> Ranking(d[i])])

---------------------------------------------------------------------------
(* visualize_performance *)

\* file_measurements.get(filename, []): the list, or [] for a missing key
DictGet(fs, filename) ==
    IF HasFile(fs, filename) THEN fs[FileIndex(fs, filename)].ms ELSE <<>>

\* what file_measurements[filename] would leave of file_measurements
AfterSubscript(fs, filename) == GetFile(fs, filename)

\* what the lookup of line 80 leaves of file_measurements: .get inserts nothing
AfterLookup(fs, filename) == fs

RECURSIVE AfterLookups(_, _)
AfterLookups(fs, names) ==
    IF names = <<>> THEN fs
    ELSE AfterLookups(AfterLookup(fs, Head(names)), Tail(names))

\* the Corpus after the loops of lines 78-92
DataAfterVisualize(d, names) ==
    [i \in 1..Len(d) |-> [d[i] EXCEPT !.files = AfterLookups(@, names)]]

ErrorCount(ms) == Len(ms) - Len(ValidMeasurements(ms))

MeanOrNone(xs) == IF xs # <<>> THEN Float(mean(xs)) ELSE None

\* ping_data, speed_data and error_data: a server has an entry once something
\* was appended for it, which needs at least one file name
ChartData(d, names) ==
    IF names = <<>> THEN <<>>
    ELSE [i \in 1..Len(d) |->
            [server |-> d[i].server,
             ping |-> [k \in 1..Len(names) |->
                 MeanOrNone(Pings(ValidMeasurements(
                     DictGet(d[i].files, names[k]))))],
             speed |-> [k \in 1..Len(names) |->
                 MeanOrNone(Speeds(ValidMeasurements(
                     DictGet(d[i].files, names[k]))))],
             errors |-> [k \in 1..Len(names) |->
                 ErrorCount(DictGet(d[i].files, names[k]))]]]

---------------------------------------------------------------------------
(* Inputs *)

\* entries the directory may hold
DirEntries ==
    { <<"b", ".", "c", "s", "v">>,
      <<"a", "b", ".", "c", "s", "v">>,
      <<"b", ".", "t", "x", "t">> }

Servers == {"A", "B"}

\* fields that are no number
TextFields ==
    { <<>>,
      <<"E", "R", "R", "O", "R">>,
      <<"E", "r", "r", "o", "r">>,
      <<"a", "b", "c">> }

\* the ping fields and the speed fields a row may hold
PingFields == TextFields \cup { <<"2", "0">> }
SpeedFields == TextFields \cup { <<"0">>, <<"1", "0">>, <<"-", "9">> }

Rows3 == Servers \X PingFields \X SpeedFields

\* rows csv.reader yields that have not 3 fields: a blank line, 2 and 4 fields
OtherRows ==
    { <<>>, <<"A", <<"2", "0">>>>, <<"B", <<"2", "0">>, <<"1", "0">>, <<"0">>>> }

\* exactly one of the ping and speed fields of a 3-field row parses as a number
OneNumber(r) == parse_value(r[2]).none # parse_value(r[3]).none

---------------------------------------------------------------------------
(* The command-line run *)

Init ==
    /\ pc = "start"
    /\ argc \in 1..3
    /\ is_dir \in BOOLEAN
    /\ listing \in SUBSET DirEntries
    /\ todo = <<>>
    /\ file_names = <<>>
    /\ data = <<>>
    /\ nrows = 0
    /\ one_number = {}
    /\ both_or_none = [name \in Servers |-> 0]
    /\ rankings = <<>>
    /\ chart = <<>>
    /\ events = <<>>
    /\ exit_code = "running"
    /\ exc = "None"
    /\ measurements = <<>>
    /\ scores = Returned(0, 0, Inf)
    /\ row = <<>>
    /\ before = <<>>

\* lines 137-139
UsageExit ==
    /\ pc = "start"
    /\ argc # 2
    /\ events' = Append(events, "usage")
    /\ exit_code' = 1
    /\ pc' = "exited"
    /\ UNCHANGED <<argc, is_dir, listing, todo, file_names, data, nrows,
                   one_number, both_or_none, rankings, chart, exc,
                   measurements, scores, row, before>>

\* lines 141-144
NotADirectoryExit ==
    /\ pc = "start"
    /\ argc = 2
    /\ ~is_dir
    /\ events' = Append(events, "error")
    /\ exit_code' = 1
    /\ pc' = "exited"
    /\ UNCHANGED <<argc, is_dir, listing, todo, file_names, data, nrows,
                   one_number, both_or_none, rankings, chart, exc,
                   measurements, scores, row, before>>

\* line 146, 121 and 16-18: main calls read_csv_files, which lists the directory
ListDirectory ==
    /\ pc = "start"
    /\ argc = 2
    /\ is_dir
    /\ todo' = SortedNames(listing)
    /\ pc' = "next_file"
    /\ UNCHANGED <<argc, is_dir, listing, file_names, data, nrows,
                   one_number, both_or_none, rankings, chart, events,
                   exit_code, exc, measurements, scores, row, before>>

\* line 19: an entry without the suffix is passed over
SkipEntry ==
    /\ pc = "next_file"
    /\ todo # <<>>
    /\ ~EndsWith(Head(todo), CSV)
    /\ todo' = Tail(todo)
    /\ UNCHANGED <<pc, argc, is_dir, listing, file_names, data, nrows,
                   one_number, both_or_none, rankings, chart, events,
                   exit_code, exc, measurements, scores, row, before>>

\* lines 19-25: the file is opened and its first row is taken as the header
OpenFile ==
    /\ pc = "next_file"
    /\ todo # <<>>
    /\ EndsWith(Head(todo), CSV)
    /\ file_names' = Append(file_names, Head(todo))
    /\ pc' = "rows"
    /\ UNCHANGED <<argc, is_dir, listing, todo, data, nrows, one_number,
                   both_or_none, rankings, chart, events, exit_code, exc,
                   measurements, scores, row, before>>

\* lines 19-25 for a file with no row: next(reader) raises StopIteration, which
\* nothing catches
OpenEmptyFile ==
    /\ pc = "next_file"
    /\ todo # <<>>
    /\ EndsWith(Head(todo), CSV)
    /\ file_names' = Append(file_names, Head(todo))
    /\ exc' = "StopIteration"
    /\ exit_code' = 1
    /\ pc' = "exited"
    /\ UNCHANGED <<argc, is_dir, listing, todo, data, nrows, one_number,
                   both_or_none, rankings, chart, events, measurements,
                   scores, row, before>>

\* lines 26-34: one data row of the current file
ReadRow(r) ==
    /\ pc = "rows"
    /\ nrows < MaxRows
    /\ nrows' = nrows + 1
    /\ one_number' = IF Len(r) = 3 /\ OneNumber(r)
                     THEN one_number \cup {r[1]} ELSE one_number
    /\ both_or_none' = IF Len(r) = 3 /\ ~OneNumber(r)
                       THEN [both_or_none EXCEPT ![r[1]] = @ + 1] ELSE both_or_none
    /\ data' = ProcessRow(data, Head(todo), r)
    /\ UNCHANGED <<pc, argc, is_dir, listing, todo, file_names, rankings,
                   chart, events, exit_code, exc, measurements, scores, row,
                   before>>

\* line 26: the reader is exhausted
EndOfFile ==
    /\ pc = "rows"
    /\ todo' = Tail(todo)
    /\ pc' = "next_file"
    /\ UNCHANGED <<argc, is_dir, listing, file_names, data, nrows,
                   one_number, both_or_none, rankings, chart, events,
                   exit_code, exc, measurements, scores, row, before>>

\* line 35: read_csv_files returns data and file_names
ReturnData ==
    /\ pc = "next_file"
    /\ todo = <<>>
    /\ pc' = "rank"
    /\ UNCHANGED <<argc, is_dir, listing, todo, file_names, data, nrows,
                   one_number, both_or_none, rankings, chart, events,
                   exit_code, exc, measurements, scores, row, before>>

\* line 122
RankNodes ==
    /\ pc = "rank"
    /\ ~RankRaises(data)
    /\ rankings' = rank_nodes(data)
    /\ pc' = "print"
    /\ UNCHANGED <<argc, is_dir, listing, todo, file_names, data, nrows,
                   one_number, both_or_none, chart, events, exit_code, exc,
                   measurements, scores, row, before>>

\* line 122 when calculate_scores raises at line 46: nothing catches it
RankNodesRaises ==
    /\ pc = "rank"
    /\ RankRaises(data)
    /\ exc' = "ZeroDivisionError"
    /\ exit_code' = 1
    /\ pc' = "exited"
    /\ UNCHANGED <<argc, is_dir, listing, todo, file_names, data, nrows,
                   one_number, both_or_none, rankings, chart, events,
                   measurements, scores, row, before>>

\* lines 124-130
PrintTable ==
    /\ pc = "print"
    /\ events' = Append(events, "table")
    /\ pc' = "visualize"
    /\ UNCHANGED <<argc, is_dir, listing, todo, file_names, data, nrows,
                   one_number, both_or_none, rankings, chart, exit_code, exc,
                   measurements, scores, row, before>>

\* line 132
VisualizePerformance ==
    /\ pc = "visualize"
    /\ chart' = ChartData(data, file_names)
    /\ data' = DataAfterVisualize(data, file_names)
    /\ events' = Append(events, "chart")
    /\ pc' = "confirm"
    /\ UNCHANGED <<argc, is_dir, listing, todo, file_names, nrows,
                   one_number, both_or_none, rankings, exit_code, exc,
                   measurements, scores, row, before>>

\* line 133, and the interpreter ends with status 0
PrintConfirmation ==
    /\ pc = "confirm"
    /\ events' = Append(events, "confirmation")
    /\ exit_code' = 0
    /\ pc' = "exited"
    /\ UNCHANGED <<argc, is_dir, listing, todo, file_names, data, nrows,
                   one_number, both_or_none, rankings, chart, exc,
                   measurements, scores, row, before>>

Next ==
    \/ UsageExit
    \/ NotADirectoryExit
    \/ ListDirectory
    \/ SkipEntry
    \/ OpenFile
    \/ OpenEmptyFile
    \/ \E r \in Rows3 \cup OtherRows : ReadRow(r)
    \/ EndOfFile
    \/ ReturnData
    \/ RankNodes
    \/ RankNodesRaises
    \/ PrintTable
    \/ VisualizePerformance
    \/ PrintConfirmation

Spec == Init /\ [][Next]_vars

---------------------------------------------------------------------------
(* calculate_scores on its own *)

\* the numbers of the samples given to calculate_scores
UnitValues == {-9 * Scale, 0, 10 * Scale}

UnitSamples == {ERROR_PAIR} \cup {Pair(p, s) : p \in UnitValues, s \in UnitValues}

UnitSequences == UNION {[1..n -> UnitSamples] : n \in 0..MaxLen}

ScoreInit ==
    /\ pc = "unit"
    /\ measurements \in UnitSequences
    /\ scores = Returned(0, 0, Inf)
    /\ argc = 2
    /\ is_dir = TRUE
    /\ listing = {}
    /\ todo = <<>>
    /\ file_names = <<>>
    /\ data = <<>>
    /\ nrows = 0
    /\ one_number = {}
    /\ both_or_none = [name \in Servers |-> 0]
    /\ rankings = <<>>
    /\ chart = <<>>
    /\ events = <<>>
    /\ exit_code = "running"
    /\ exc = "None"
    /\ row = <<>>
    /\ before = <<>>

\* lines 37-52
CalculateScores ==
    /\ pc = "unit"
    /\ scores' = calculate_scores(measurements)
    /\ pc' = "unit_done"
    /\ UNCHANGED <<argc, is_dir, listing, todo, file_names, data, nrows,
                   one_number, both_or_none, rankings, chart, events,
                   exit_code, exc, measurements, row, before>>

ScoreNext == CalculateScores

ScoreSpec == ScoreInit /\ [][ScoreNext]_vars

---------------------------------------------------------------------------
(* One pass of the row loop of read_csv_files on its own *)

CsvNames == {n \in DirEntries : EndsWith(n, CSV)}

\* the Corpus before the pass: empty, or what one earlier row left
RowCorpora ==
    {<<>>} \cup {ProcessRow(<<>>, f, r) : f \in CsvNames, r \in Rows3}

RowInit ==
    /\ pc = "row"
    /\ data \in RowCorpora
    /\ \E f \in CsvNames : todo = <<f>>
    /\ row \in Rows3 \cup OtherRows
    /\ before = <<>>
    /\ argc = 2
    /\ is_dir = TRUE
    /\ listing = {}
    /\ file_names = <<>>
    /\ nrows = 0
    /\ one_number = {}
    /\ both_or_none = [name \in Servers |-> 0]
    /\ rankings = <<>>
    /\ chart = <<>>
    /\ events = <<>>
    /\ exit_code = "running"
    /\ exc = "None"
    /\ measurements = <<>>
    /\ scores = Returned(0, 0, Inf)

\* lines 27-34
LoopBody ==
    /\ pc = "row"
    /\ before' = data
    /\ data' = ProcessRow(data, Head(todo), row)
    /\ pc' = "row_done"
    /\ UNCHANGED <<argc, is_dir, listing, todo, file_names, nrows,
                   one_number, both_or_none, rankings, chart, events,
                   exit_code, exc, measurements, scores, row>>

RowNext == LoopBody

RowSpec == RowInit /\ [][RowNext]_vars

---------------------------------------------------------------------------
(* Properties *)

\* the number of valid (non-error-marker) pairs of a sample sequence
ValidCount(ms) == Cardinality({i \in 1..Len(ms) : ~ms[i].err})

\* the sum of the speeds of the valid pairs: zero exactly when their mean is
SpeedSum(ms) == SumSeq(Speeds(ValidMeasurements(ms)))

\* all samples of a server in Corpus d, none for a server that d does not hold
SamplesIn(d, name) ==
    IF HasServer(d, name) THEN AllMeasurements(d[ServerIndex(d, name)].files)
    ELSE <<>>

\* the sample list of (name, filename) in Corpus d, empty when d holds none
ListIn(d, name, filename) ==
    IF HasServer(d, name) THEN DictGet(d[ServerIndex(d, name)].files, filename)
    ELSE <<>>

\* rank_nodes has returned
Ranked == pc \in {"print", "visualize", "confirm"} \/ (pc = "exited" /\ exit_code = 0)

\* read_csv_files has returned
ReadDone == pc \in {"rank", "print", "visualize", "confirm"}
            \/ (pc = "exited" /\ argc = 2 /\ is_dir /\ exc # "StopIteration")

\* a field that is empty or equals "ERROR" whatever the case of its letters
ExplicitError(f) ==
    \/ f = <<>>
    \/ Len(f) = Len(ERROR) /\ \A i \in 1..Len(f) : UpperChar(f[i]) = ERROR[i]

\* the pass of the row loop has recorded an error marker for row
MarkerRecorded ==
    ListIn(data, row[1], Head(todo))
        = Append(ListIn(before, row[1], Head(todo)), ERROR_PAIR)

\* C1: calculate_scores returns stability 0, avg_speed 0 and avg_ping +infinity
\* for every sample sequence with 0 or 1 valid pairs, whatever the number of
\* error markers in it.
C1_InsufficientData ==
    (pc = "unit_done" /\ ValidCount(measurements) <= 1)
        => scores = [exc |-> "None", stability |-> 0, avg_speed |-> 0, avg_ping |-> Inf]

C1_Witness ==
    /\ pc = "unit_done"
    /\ ValidCount(measurements) = 1
    /\ Len(measurements) = 3

\* C2: every server with at least 2 valid samples and a nonzero speed mean has
\* a weighted score in [0, 1] in the output of rank_nodes.
C2_WeightedScoreInUnitInterval ==
    Ranked =>
        \A i \in 1..Len(rankings) :
            (/\ ValidCount(SamplesIn(data, rankings[i].server)) >= 2
             /\ SpeedSum(SamplesIn(data, rankings[i].server)) # 0)
                => (0 <= rankings[i].weighted_score /\ rankings[i].weighted_score <= Scale)

\* C3: rank_nodes returns one entry for each server of the Corpus, in order of
\* non-increasing weighted score, and servers with equal weighted score keep
\* the order in which they were inserted into the Corpus.
C3_RankingOrder ==
    Ranked =>
        /\ Len(rankings) = Len(data)
        /\ {rankings[i].server : i \in 1..Len(rankings)} = Keys(data)
        /\ \A i, j \in 1..Len(rankings) :
              i < j =>
                /\ rankings[i].server # rankings[j].server
                /\ rankings[i].weighted_score >= rankings[j].weighted_score
                /\ rankings[i].weighted_score = rankings[j].weighted_score
                     => ServerIndex(data, rankings[i].server)
                          < ServerIndex(data, rankings[j].server)

C3_Witness ==
    /\ Ranked
    /\ Len(rankings) = 2
    /\ rankings[1].weighted_score = rankings[2].weighted_score
    /\ rankings[1].server = "B"

\* C4 as stated: a 3-field row is recorded as an error marker only if its ping
\* field and its speed field are both explicit-error.
C4_MarkerOnlyIfExplicitError ==
    (pc = "row_done" /\ Len(row) = 3 /\ MarkerRecorded)
        => (ExplicitError(row[2]) /\ ExplicitError(row[3]))

\* C4 as amended: a 3-field row is recorded as an error marker exactly when
\* neither its ping field nor its speed field parses as a number, each being
\* explicit-error or text that float() rejects.
C4_MarkerIffNoNumber ==
    (pc = "row_done" /\ Len(row) = 3)
        => (MarkerRecorded
              <=> (/\ ExplicitError(row[2]) \/ ~IsFloatLiteral(row[2])
                   /\ ExplicitError(row[3]) \/ ~IsFloatLiteral(row[3])))

C4_Witness ==
    /\ pc = "row_done"
    /\ row = <<"A", <<"a", "b", "c">>, <<"a", "b", "c">>>>
    /\ MarkerRecorded

\* C5: a 3-field row in which exactly one of the ping and speed fields parses
\* as a number adds no sample, so that a server holds as many samples as it had
\* rows with two numbers or none, and a server all of whose rows had exactly one
\* number is in neither the Corpus nor the ranking.
C5_OneNumberRowDropped ==
    /\ \A name \in Servers : Len(SamplesIn(data, name)) = both_or_none[name]
    /\ \A name \in one_number :
          both_or_none[name] = 0
              => /\ name \notin Keys(data)
                 /\ \A i \in 1..Len(rankings) : rankings[i].server # name

C5_Witness ==
    /\ pc = "exited"
    /\ exit_code = 0
    /\ Len(rankings) = 1
    /\ \E name \in one_number : both_or_none[name] = 0

\* C6: the run ends in one of three ways: status 1 after the usage message,
\* status 1 after the error message, or status 0 after the table, the chart and
\* the confirmation in this order, the last for every valid directory.
C6_ThreeOutcomes ==
    pc = "exited" =>
        \/ argc # 2 /\ exit_code = 1 /\ events = <<"usage">>
        \/ argc = 2 /\ ~is_dir /\ exit_code = 1 /\ events = <<"error">>
        \/ argc = 2 /\ is_dir /\ exit_code = 0
             /\ events = <<"table", "chart", "confirmation">>

\* C7: for at least 2 valid pairs whose speed mean is 0, calculate_scores
\* returns a result instead of raising.
C7_SpeedMeanZeroHandled ==
    (pc = "unit_done" /\ ValidCount(measurements) >= 2 /\ SpeedSum(measurements) = 0)
        => scores.exc = "None"

\* C8: a server with fewer than 2 valid samples has weighted score 0 and no
\* such server stands before a server with at least 2 valid samples in the
\* output of rank_nodes.
C8_InsufficientRankedLast ==
    Ranked =>
        /\ \A i \in 1..Len(rankings) :
              ValidCount(SamplesIn(data, rankings[i].server)) < 2
                  => rankings[i].weighted_score = 0
        /\ \A i, j \in 1..Len(rankings) :
              i < j => ~(/\ ValidCount(SamplesIn(data, rankings[i].server)) < 2
                         /\ ValidCount(SamplesIn(data, rankings[j].server)) >= 2)

\* C9: once read_csv_files has returned, no step changes the Corpus: its
\* server keys, each server's file keys and every sample list stay as they are.
C9_CorpusFrozen ==
    [][ReadDone => data' = data]_vars

C9_Witness ==
    /\ pc = "exited"
    /\ exit_code = 0
    /\ \E i \in 1..Len(data), k \in 1..Len(file_names) :
          file_names[k] \notin FileKeys(data[i].files)

\* C10: for every valid directory read_csv_files returns, no exception
\* propagating, with the sorted list of the ".csv" names of the directory.
C10_IngestionReturns ==
    (argc = 2 /\ is_dir /\ pc \notin {"start", "next_file", "rows"})
        => /\ exc # "StopIteration"
           /\ file_names = SortedNames({n \in listing : EndsWith(n, CSV)})

=============================================================================
